---------------------------- MODULE Spec2Model ----------------------------
(***************************************************************************)
(* FlatHashTable (tdutils/td/utils/FlatHashMapLinear.h): an open-addressed *)
(* hash table with linear probing, sentinel-keyed empty buckets and        *)
(* backward-shift deletion, instantiated as FlatHashMapImpl<int32, int32>. *)
(*                                                                         *)
(* A table is a record [null, used, mask, nodes]: null stands for          *)
(* nodes_ == nullptr, used and mask are the two header fields              *)
(* used_node_count_ and bucket_count_mask_, and nodes is the bucket array  *)
(* (bucket b of the code is nodes[b + 1]).  A node is [first, second];     *)
(* first = 0 (KeyT()) marks an empty bucket.                               *)
(***************************************************************************)
EXTENDS Integers, Sequences, FiniteSets, TLC

VARIABLES t, c, last, abs, reserved, input, pos, out, heap

vars == <<t, c, last, abs, reserved, input, pos, out, heap>>

-----------------------------------------------------------------------------
(* Bounds of the model.                                                    *)

\* keys offered to emplace / erase / find are 1..MaxKey
MaxKey == 7
\* values offered to emplace are 0..MaxVal
MaxVal == 1
\* reserve(n) is called with n in 1..MaxReserve
MaxReserve == 6
\* the scripted insertion sequences of SpecSeq have at most MaxLen elements,
\* with keys in 1..MaxSeqKey
MaxLen == 3
MaxSeqKey == 3
\* SpecRemove and SpecCopy, where values vary, use the keys 1..MaxValKey
MaxValKey == 3
\* SpecShrink, where tables of up to 128 buckets are reserved and emptied,
\* uses the keys 1..MaxShrinkKey
MaxShrinkKey == 9
\* SpecChain draws its colliding keys from 1..MaxChainKey, the least range
\* in which every home bucket of an 8-bucket table is shared by three keys
MaxChainKey == 38
\* SpecHeap stops once MaxHeap heap regions are live
MaxHeap == 4
\* SpecNormalize calls normalize(n) for every n in 1..MaxNormalize, and for
\* the powers of two up to 2^29 and their neighbours
MaxNormalize == 70

Keys == 1..MaxKey
SeqKeys == 1..MaxSeqKey
ValKeys == 1..MaxValKey
ShrinkKeys == 1..MaxShrinkKey
ChainKeys == 1..MaxChainKey

-----------------------------------------------------------------------------
(* 32-bit arithmetic of randomize_hash.  A uint32 is kept as a pair        *)
(* <<hi, lo>> of 16-bit halves, so that no intermediate value leaves the   *)
(* range of the checker's integers.                                        *)

Pow2(n) == 2 ^ n

RECURSIVE Xor16(_, _, _)
\* bitwise exclusive or of the low n bits of a and b
Xor16(a, b, n) ==
  IF n = 0 THEN 0
  ELSE ((a + b) % 2) + 2 * Xor16(a \div 2, b \div 2, n - 1)

\* a * b mod 2^16 for a, b < 2^16
MulLo16(a, b) ==
  ((a % 256) * b + (((a \div 256) * b) % 256) * 256) % 65536

\* floor(a * b / 2^16) for a, b < 2^16
MulHi16(a, b) ==
  LET p0 == (a % 256) * b
      p1 == (a \div 256) * b
  IN  (p0 + (p1 % 256) * 256) \div 65536 + p1 \div 256

\* x * y mod 2^32 on halves: the uint32 multiplication `result *= ...`
Mul32(x, y) ==
  <<(MulLo16(x[1], y[2]) + MulLo16(x[2], y[1]) + MulHi16(x[2], y[2])) % 65536,
    MulLo16(x[2], y[2])>>

\* result ^= result >> 16
XorShift16(x) == <<x[1], Xor16(x[2], x[1], 16)>>

\* result ^= result >> 13
XorShift13(x) ==
  <<Xor16(x[1], x[1] \div 8192, 16),
    Xor16(x[2], (x[1] % 8192) * 8 + x[2] \div 8192, 16)>>

\* 0x85ebca6b and 0xc2b2ae35 as halves
MixA == <<34283, 51819>>
MixB == <<49842, 44597>>

\* uint32 randomize_hash(size_t h), h given as a non-negative integer < 2^31
randomize_hash(h) ==
  LET r0 == <<(h \div 65536) % 65536, h % 65536>>
      r1 == XorShift16(r0)
      r2 == Mul32(r1, MixA)
      r3 == XorShift13(r2)
      r4 == Mul32(r3, MixB)
  IN  XorShift16(r4)

\* HashT()(key): std::hash of an integer key is the key itself
HashT(key) == key

\* the mixed hash of every key the model offers, computed once
HashOf ==
  [k \in 0..(MaxKey + MaxShrinkKey + MaxChainKey) |-> randomize_hash(HashT(k))]

KeyHash(key) ==
  IF key \in DOMAIN HashOf THEN HashOf[key] ELSE randomize_hash(HashT(key))

-----------------------------------------------------------------------------
(* Nodes, headers and the inspectors.                                      *)

\* Iterator with it_ == nullptr: end()
End == -1

\* the value operator[] constructs: ValueT() of an integer
DefaultVal == 0

Vals == DefaultVal..MaxVal

\* a default-constructed MapNode: first{} and raw storage for second
EmptyNode == [first |-> 0, second |-> 0]

\* the members of a MapNode: KeyT first and ValueT second; also the pair of
\* arguments (key, value) a caller writes
KeyValue(key, value) == [first |-> key, second |-> value]

\* FlatHashTable() = default: nodes_ == nullptr
Null == [null |-> TRUE, used |-> 0, mask |-> 0, nodes |-> <<>>]

is_key_empty(key) == key = 0

node_empty(node) == is_key_empty(node.first)

\* MapNode(KeyT key, ValueT value), in a build where DCHECK is compiled in
\* (dcheck) or compiled out; fatal is the failed DCHECK(!empty())
MapNode(key, value, dcheck) ==
  [node |-> KeyValue(key, value), fatal |-> dcheck /\ is_key_empty(key)]

bucket_count(tb) == IF tb.null THEN 0 ELSE tb.mask + 1

size(tb) == IF tb.null THEN 0 ELSE tb.used

empty(tb) == tb.null \/ tb.used = 0

\* randomize_hash(HashT()(key)) & get_bucket_count_mask(); mask + 1 divides 2^29
calc_bucket(key, mask) ==
  LET h == KeyHash(key)
  IN  ((h[1] % 8192) * 65536 + h[2]) % (mask + 1)

\* bucket = (bucket + 1) & get_bucket_count_mask()
next_bucket(bucket, mask) == (bucket + 1) % (mask + 1)

RECURSIVE BitLen(_)
\* 32 - count_leading_zeroes32(x)
BitLen(x) == IF x = 0 THEN 0 ELSE 1 + BitLen(x \div 2)

Max(a, b) == IF a > b THEN a ELSE b

\* normalize rounding up to a power of two: 32 - count_leading_zeroes32 of
\* size - 1
normalize_ceil(sz) == Max(Pow2(BitLen(sz - 1)), 8)

\* td::max(1 << (32 - count_leading_zeroes32(size)), 8)
normalize(sz) == Max(Pow2(BitLen(sz)), 8)

\* malloc plus placement-new of size empty nodes; bucket_count_mask_ is set,
\* used_node_count_ is left for the caller (resize) to write
allocate_nodes(sz) ==
  [null |-> FALSE, used |-> 0, mask |-> sz - 1,
   nodes |-> [i \in 1..sz |-> EmptyNode]]

-----------------------------------------------------------------------------
(* resize, try_grow, try_shrink, reserve.                                  *)

RECURSIVE probe_empty(_, _, _)
\* while (!nodes_[bucket].empty()) next_bucket(bucket)
probe_empty(nodes, mask, bucket) ==
  IF node_empty(nodes[bucket + 1]) THEN bucket
  ELSE probe_empty(nodes, mask, next_bucket(bucket, mask))

\* a loop `for (; i != stop; i++) { if (nodes[i].empty()) continue; ... }`
\* steps over empty buckets: the first occupied bucket in i..stop - 1, or stop
skip_empty(nodes, i, stop) ==
  LET occ == {j \in i..(stop - 1) : ~node_empty(nodes[j + 1])}
  IN  IF occ = {} THEN stop ELSE CHOOSE j \in occ : \A k \in occ : j <= k

RECURSIVE rehash(_, _, _, _)
\* the loop of resize over the old buckets i, i + 1, ..., old_bucket_count - 1
rehash(old_nodes, i, old_bucket_count, new) ==
  LET j == skip_empty(old_nodes, i, old_bucket_count)
  IN  IF j >= old_bucket_count THEN new
      ELSE LET old_node == old_nodes[j + 1]
               bucket == probe_empty(new.nodes, new.mask,
                                     calc_bucket(old_node.first, new.mask))
           IN  rehash(old_nodes, j + 1, old_bucket_count,
                      [new EXCEPT !.nodes[bucket + 1] = old_node])

resize(tb, new_size) ==
  IF tb.null
  THEN [allocate_nodes(new_size) EXCEPT !.used = 0]
  ELSE rehash(tb.nodes, 0, tb.mask + 1,
              [allocate_nodes(new_size) EXCEPT !.used = tb.used])

\* try_grow with the growth threshold at 0.8 instead of 0.6
try_grow_late(tb) ==
  IF tb.null THEN resize(tb, 8)
  ELSE IF tb.used * 5 > tb.mask * 4 THEN resize(tb, 2 * tb.mask + 2)
  ELSE tb

\* try_grow that counts the entry about to be inserted
try_grow_eager(tb) ==
  IF tb.null THEN resize(tb, 8)
  ELSE IF (tb.used + 1) * 5 > tb.mask * 3 THEN resize(tb, 2 * tb.mask + 2)
  ELSE tb

try_grow(tb) ==
  IF tb.null THEN resize(tb, 8)
  ELSE IF tb.used * 5 > tb.mask * 3 THEN resize(tb, 2 * tb.mask + 2)
  ELSE tb

\* try_shrink that always shrinks to the least table
try_shrink_min(tb) ==
  IF tb.used * 10 < tb.mask /\ tb.mask > 7 THEN resize(tb, 8) ELSE tb

\* try_shrink with the threshold at a load of 0.2 instead of 0.1
try_shrink_eager(tb) ==
  IF tb.used * 5 < tb.mask /\ tb.mask > 7
  THEN resize(tb, normalize(((tb.used + 1) * 5) \div 3 + 1))
  ELSE tb

try_shrink(tb) ==
  IF tb.used * 10 < tb.mask /\ tb.mask > 7
  THEN resize(tb, normalize(((tb.used + 1) * 5) \div 3 + 1))
  ELSE tb

\* reserve allocating the least table whatever sz is
reserve_min(tb, sz) ==
  IF sz = 0 THEN tb
  ELSE IF 8 > bucket_count(tb) THEN resize(tb, 8) ELSE tb

\* reserve sizing the table for sz buckets, not for sz entries at load 0.6
reserve_small(tb, sz) ==
  IF sz = 0 THEN tb
  ELSE LET want_size == normalize(sz)
       IN  IF want_size > bucket_count(tb) THEN resize(tb, want_size) ELSE tb

reserve(tb, sz) ==
  IF sz = 0 THEN tb
  ELSE LET want_size == normalize((sz * 5) \div 3 + 1)
       IN  IF want_size > bucket_count(tb) THEN resize(tb, want_size) ELSE tb

-----------------------------------------------------------------------------
(* find, count, emplace, operator[].                                       *)

RECURSIVE find_probe(_, _, _)
\* the probe loop of find: the bucket holding key, or End at an empty bucket
find_probe(tb, key, bucket) ==
  LET node == tb.nodes[bucket + 1]
  IN  IF node.first = key THEN bucket
      ELSE IF node_empty(node) THEN End
      ELSE find_probe(tb, key, next_bucket(bucket, tb.mask))

\* Iterator find(const KeyT &key): the iterator's bucket, End for end()
find(tb, key) ==
  IF tb.null \/ is_key_empty(key) THEN End
  ELSE find_probe(tb, key, calc_bucket(key, tb.mask))

\* size_t count(const KeyT &key)
count(tb, key) == IF find(tb, key) # End THEN 1 ELSE 0

RECURSIVE emplace_probe_overwrite(_, _, _, _)
\* the probe loop of emplace, assigning the new value on a key match
emplace_probe_overwrite(tb, key, value, bucket) ==
  LET node == tb.nodes[bucket + 1]
  IN  IF node.first = key
      THEN [tb |-> [tb EXCEPT !.nodes[bucket + 1] = KeyValue(key, value)],
            it |-> bucket, inserted |-> FALSE, fatal |-> FALSE]
      ELSE IF node_empty(node)
      THEN [tb |-> [tb EXCEPT !.nodes[bucket + 1] = KeyValue(key, value),
                              !.used = @ + 1],
            it |-> bucket, inserted |-> TRUE, fatal |-> FALSE]
      ELSE emplace_probe_overwrite(tb, key, value, next_bucket(bucket, tb.mask))

RECURSIVE emplace_probe(_, _, _, _)
\* the probe loop of emplace
emplace_probe(tb, key, value, bucket) ==
  LET node == tb.nodes[bucket + 1]
  IN  IF node.first = key
      THEN [tb |-> tb, it |-> bucket, inserted |-> FALSE, fatal |-> FALSE]
      ELSE IF node_empty(node)
      THEN [tb |-> [tb EXCEPT !.nodes[bucket + 1] = KeyValue(key, value),
                              !.used = @ + 1],
            it |-> bucket, inserted |-> TRUE, fatal |-> FALSE]
      ELSE emplace_probe(tb, key, value, next_bucket(bucket, tb.mask))

\* emplace without CHECK(!is_key_empty(key))
emplace_unchecked(tb, key, value) ==
  LET g == try_grow(tb)
  IN  emplace_probe(g, key, value, calc_bucket(key, g.mask))

\* std::pair<Iterator, bool> emplace(KeyT key, ArgsT &&...args); fatal is the
\* failed CHECK(!is_key_empty(key)), which comes after try_grow
emplace(tb, key, value) ==
  LET g == try_grow(tb)
  IN  IF is_key_empty(key)
      THEN [tb |-> g, it |-> End, inserted |-> FALSE, fatal |-> TRUE]
      ELSE emplace_probe(g, key, value, calc_bucket(key, g.mask))

\* T &operator[](const KeyT &key): emplace(key) with a value-initialised second
index(tb, key) == emplace(tb, key, DefaultVal)

-----------------------------------------------------------------------------
(* erase_node (backward shift), erase, clear.                              *)

RECURSIVE shift_no_wrap(_, _, _, _)
\* the loop of erase_node without the test want_i > test_i
shift_no_wrap(tb, empty_i, empty_bucket, test_i) ==
  LET bc == bucket_count(tb)
      test_bucket == IF test_i >= bc THEN test_i - bc ELSE test_i
      node == tb.nodes[test_bucket + 1]
  IN  IF node_empty(node) THEN tb
      ELSE LET home == calc_bucket(node.first, tb.mask)
               want_i == IF home < empty_i THEN home + bc ELSE home
           IN  IF want_i <= empty_i
               THEN shift_no_wrap([tb EXCEPT !.nodes[empty_bucket + 1] = node,
                                             !.nodes[test_bucket + 1] = EmptyNode],
                                  test_i, test_bucket, test_i + 1)
               ELSE shift_no_wrap(tb, empty_i, empty_bucket, test_i + 1)

\* the loop of erase_node leaving after the first entry it moves back
shift_one(tb, empty_i, empty_bucket, test_i) ==
  LET bc == bucket_count(tb)
      test_bucket == IF test_i >= bc THEN test_i - bc ELSE test_i
      node == tb.nodes[test_bucket + 1]
  IN  IF node_empty(node) THEN tb
      ELSE [tb EXCEPT !.nodes[empty_bucket + 1] = node,
                      !.nodes[test_bucket + 1] = EmptyNode]

RECURSIVE shift(_, _, _, _)
\* the for loop of erase_node from test_i on, the hole being at empty_bucket
shift(tb, empty_i, empty_bucket, test_i) ==
  LET bc == bucket_count(tb)
      test_bucket == IF test_i >= bc THEN test_i - bc ELSE test_i
      node == tb.nodes[test_bucket + 1]
  IN  IF node_empty(node) THEN tb
      ELSE LET home == calc_bucket(node.first, tb.mask)
               want_i == IF home < empty_i THEN home + bc ELSE home
           IN  IF want_i <= empty_i \/ want_i > test_i
               THEN shift([tb EXCEPT !.nodes[empty_bucket + 1] = node,
                                     !.nodes[test_bucket + 1] = EmptyNode],
                          test_i, test_bucket, test_i + 1)
               ELSE shift(tb, empty_i, empty_bucket, test_i + 1)

\* erase_node that clears the bucket and moves nothing back
erase_node_no_shift(tb, it) ==
  [tb EXCEPT !.nodes[it + 1] = EmptyNode, !.used = @ - 1]

\* void erase_node(NodeT *it), it given as its bucket
erase_node(tb, it) ==
  shift([tb EXCEPT !.nodes[it + 1] = EmptyNode, !.used = @ - 1],
        it, it, it + 1)

\* void erase(Iterator it)
erase_it(tb, it) == try_shrink(erase_node(tb, it))

\* size_t erase(const KeyT &key)
erase(tb, key) ==
  LET it == find(tb, key)
  IN  IF it = End THEN [tb |-> tb, ret |-> 0]
      ELSE [tb |-> erase_it(tb, it), ret |-> 1]

\* void clear()
clear(tb) == Null

-----------------------------------------------------------------------------
(* Iteration: begin, end, Iterator::operator++.                            *)

\* while (nodes_[bucket].empty()) next_bucket(bucket), on a table that is
\* not empty: the first occupied bucket from bucket on, wrapping to bucket 0
probe_occupied(tb, bucket) ==
  LET j == skip_empty(tb.nodes, bucket, bucket_count(tb))
  IN  IF j < bucket_count(tb) THEN j ELSE skip_empty(tb.nodes, 0, bucket)

\* Iterator(NodeT *it, FlatHashTable *map): it_ and start_ as buckets
Iterator(it) == [it |-> it, start |-> it]

\* Iterator begin(), rnd being the value of Random::fast_uint32()
begin(tb, rnd) ==
  IF empty(tb) THEN Iterator(End)
  ELSE Iterator(probe_occupied(tb, rnd % (tb.mask + 1)))

RECURSIVE advance_no_wrap(_, _, _)
\* operator++ that ends at the last bucket instead of wrapping to begin_
advance_no_wrap(tb, it, start) ==
  LET n == it + 1
  IN  IF n = bucket_count(tb) \/ n = start THEN End
      ELSE IF node_empty(tb.nodes[n + 1]) THEN advance_no_wrap(tb, n, start)
      ELSE n

RECURSIVE advance(_, _, _)
\* the do-while of operator++: the next occupied bucket, End on reaching start_
advance(tb, it, start) ==
  LET n == IF it + 1 = bucket_count(tb) THEN 0 ELSE it + 1
  IN  IF n = start THEN End
      ELSE IF node_empty(tb.nodes[n + 1]) THEN advance(tb, n, start)
      ELSE n

\* Iterator &operator++()
increment(tb, iter) == [iter EXCEPT !.it = advance(tb, iter.it, iter.start)]

RECURSIVE collect(_, _, _, _)
\* for (it = begin(); it != end(); ++it): the buckets yielded, and whether
\* end() was reached within fuel increments
collect(tb, iter, acc, fuel) ==
  IF iter.it = End THEN [seq |-> acc, finished |-> TRUE]
  ELSE IF fuel = 0 THEN [seq |-> acc, finished |-> FALSE]
  ELSE collect(tb, increment(tb, iter), Append(acc, iter.it), fuel - 1)

iterate(tb, rnd) == collect(tb, begin(tb, rnd), <<>>, bucket_count(tb) + 1)

-----------------------------------------------------------------------------
(* Copy, move, the initializer-list constructor.                           *)

RECURSIVE copy_nodes(_, _, _, _)
\* the range-for of assign over the buckets order[i], order[i + 1], ...
copy_nodes(dst, other, order, i) ==
  IF i > Len(order) THEN dst
  ELSE LET new_node == other.nodes[order[i] + 1]
           bucket == probe_empty(dst.nodes, dst.mask,
                                 calc_bucket(new_node.first, dst.mask))
       IN  copy_nodes([dst EXCEPT !.nodes[bucket + 1] = new_node],
                      other, order, i + 1)

\* assign without the final used_node_count() = other.get_used_node_count()
assign_no_count(dst, other, rnd) ==
  IF size(other) = 0 THEN dst
  ELSE copy_nodes(resize(dst, bucket_count(other)), other,
                  iterate(other, rnd).seq, 1)

\* void assign(const FlatHashTable &other); rnd is drawn by other.begin()
assign(dst, other, rnd) ==
  IF size(other) = 0 THEN dst
  ELSE [copy_nodes(resize(dst, bucket_count(other)), other,
                   iterate(other, rnd).seq, 1)
        EXCEPT !.used = other.used]

\* FlatHashTable(const FlatHashTable &other)
copy_construct(other, rnd) == assign(Null, other, rnd)

\* void operator=(const FlatHashTable &other), other a different object
copy_assign(dst, other, rnd) == assign(clear(dst), other, rnd)

\* void operator=(const FlatHashTable &other) with &other == this: clear()
\* empties the one object before assign reads it
copy_assign_self(tb, rnd) == assign(clear(tb), clear(tb), rnd)

\* FlatHashTable(FlatHashTable &&other): the pair (new table, other)
move_construct(other) == [dst |-> other, src |-> Null]

\* move assignment without other.nodes_ = nullptr
move_assign_keep_source(dst, other) == [dst |-> other, src |-> other]

\* void operator=(FlatHashTable &&other), other a different object
move_assign(dst, other) == [dst |-> other, src |-> Null]

\* void swap(FlatHashTable &other): the pair (this table, other) after
\* std::swap(nodes_, other.nodes_)
swap(dst, other) == [dst |-> other, src |-> dst]

RECURSIVE init_probe_count_all(_, _, _)
\* the probe of the initializer-list constructor counting a repeated key too
init_probe_count_all(st, new_node, bucket) ==
  LET node == st.tb.nodes[bucket + 1]
  IN  IF node_empty(node)
      THEN [st EXCEPT !.tb.nodes[bucket + 1] = new_node,
                      !.used_nodes = @ + 1]
      ELSE IF node.first = new_node.first
      THEN [st EXCEPT !.used_nodes = @ + 1]
      ELSE init_probe_count_all(st, new_node, next_bucket(bucket, st.tb.mask))

RECURSIVE init_probe(_, _, _)
\* the while (true) of the initializer-list constructor for one new_node
init_probe(st, new_node, bucket) ==
  LET node == st.tb.nodes[bucket + 1]
  IN  IF node_empty(node)
      THEN [st EXCEPT !.tb.nodes[bucket + 1] = new_node,
                      !.used_nodes = @ + 1]
      ELSE IF node.first = new_node.first THEN st
      ELSE init_probe(st, new_node, next_bucket(bucket, st.tb.mask))

RECURSIVE init_nodes(_, _, _)
\* for (auto &new_node : nodes) from the i-th node on; fatal is the failed
\* CHECK(!new_node.empty()), which ends the loop at that node
init_nodes(st, nodes, i) ==
  IF i > Len(nodes) THEN st
  ELSE IF node_empty(nodes[i]) THEN [st EXCEPT !.fatal = TRUE]
  ELSE init_nodes(init_probe(st, nodes[i],
                             calc_bucket(nodes[i].first, st.tb.mask)),
                  nodes, i + 1)

\* FlatHashTable(std::initializer_list<NodeT> nodes); when the CHECK fails
\* tb is the memory as the loop left it, used_node_count() not yet written
init_list(nodes) ==
  IF Len(nodes) = 0 THEN [tb |-> Null, fatal |-> FALSE]
  ELSE LET st == init_nodes([tb |-> reserve(Null, Len(nodes)), used_nodes |-> 0,
                             fatal |-> FALSE], nodes, 1)
       IN  IF st.fatal THEN [tb |-> st.tb, fatal |-> TRUE]
           ELSE [tb |-> [st.tb EXCEPT !.used = st.used_nodes], fatal |-> FALSE]

-----------------------------------------------------------------------------
(* remove_if.                                                              *)

\* the predicates offered to remove_if: a residue of the key or of the value
Preds ==
  << [on |-> "key", m |-> 1, r |-> 0], [on |-> "key", m |-> 1, r |-> 1],
     [on |-> "key", m |-> 2, r |-> 0], [on |-> "key", m |-> 2, r |-> 1],
     [on |-> "val", m |-> 2, r |-> 0], [on |-> "val", m |-> 2, r |-> 1] >>

\* f(it->get_public())
F(p, node) ==
  IF p.on = "key" THEN node.first % p.m = p.r ELSE node.second % p.m = p.r

\* remove_if taking the bucket begin() returned for first_empty
walk_forward_none(tb, it) == it

RECURSIVE walk_forward(_, _)
\* while (it != end && !it->empty()) ++it
walk_forward(tb, it) ==
  IF it # bucket_count(tb) /\ ~node_empty(tb.nodes[it + 1])
  THEN walk_forward(tb, it + 1)
  ELSE it

RECURSIVE walk_back(_, _)
\* do { --it; } while (!it->empty())
walk_back(tb, it) ==
  IF node_empty(tb.nodes[it]) THEN it - 1 ELSE walk_back(tb, it - 1)

RECURSIVE sweep_skip(_, _, _, _)
\* the loop of remove_if stepping on after an erase_node as well
sweep_skip(st, p, from, stop) ==
  LET it == skip_empty(st.tb.nodes, from, stop)
  IN  IF it = stop THEN st
      ELSE LET node == st.tb.nodes[it + 1]
           IN  IF F(p, node)
               THEN sweep_skip([tb |-> erase_node(st.tb, it),
                                calls |-> Append(st.calls, node.first),
                                at |-> Append(st.at, it)],
                               p, it + 1, stop)
               ELSE sweep_skip([st EXCEPT !.calls = Append(@, node.first),
                                          !.at = Append(@, it)],
                               p, it + 1, stop)

RECURSIVE sweep(_, _, _, _)
\* while (it != stop): erase_node(it) where f holds, ++it elsewhere; calls
\* lists the keys f was evaluated on, at the buckets they were in
sweep(st, p, from, stop) ==
  LET it == skip_empty(st.tb.nodes, from, stop)
  IN  IF it = stop THEN st
      ELSE LET node == st.tb.nodes[it + 1]
           IN  IF F(p, node)
               THEN sweep([tb |-> erase_node(st.tb, it),
                           calls |-> Append(st.calls, node.first),
                           at |-> Append(st.at, it)], p, it, stop)
               ELSE sweep([st EXCEPT !.calls = Append(@, node.first),
                                     !.at = Append(@, it)],
                          p, it + 1, stop)

\* remove_if on a table that is not empty, up to its final try_shrink: the
\* search for first_empty and the two loops
remove_if_loops(tb, p, rnd) ==
  LET end == bucket_count(tb)
      it == walk_forward(tb, begin(tb, rnd).it)
      first_empty == IF it = end THEN walk_back(tb, end) ELSE it
      s1 == sweep([tb |-> tb, calls |-> <<>>, at |-> <<>>], p, first_empty, end)
  IN  sweep(s1, p, 0, first_empty)

\* void remove_if(F &&f), rnd being drawn by begin(); mid is bucket_count()
\* when the loops are done, before try_shrink
remove_if(tb, p, rnd) ==
  IF empty(tb)
  THEN [tb |-> tb, calls |-> <<>>, at |-> <<>>, mid |-> bucket_count(tb)]
  ELSE LET s2 == remove_if_loops(tb, p, rnd)
       IN  [tb |-> try_shrink(s2.tb), calls |-> s2.calls, at |-> s2.at,
            mid |-> bucket_count(s2.tb)]

-----------------------------------------------------------------------------
(* The heap.  Each operator below gives, for one call, the number of       *)
(* regions obtained by std::malloc (in allocate_nodes) minus the number    *)
(* released by std::free (in clear_inner).                                 *)

\* resize: one allocate_nodes on either path; old_nodes is not passed to
\* clear_inner
heap_resize == 1

heap_try_grow(tb) ==
  IF tb.null THEN heap_resize
  ELSE IF tb.used * 5 > tb.mask * 3 THEN heap_resize
  ELSE 0

heap_try_shrink(tb) ==
  IF tb.used * 10 < tb.mask /\ tb.mask > 7 THEN heap_resize ELSE 0

heap_reserve(tb, sz) ==
  IF sz = 0 THEN 0
  ELSE IF normalize((sz * 5) \div 3 + 1) > bucket_count(tb) THEN heap_resize
  ELSE 0

\* clear: clear_inner where nodes_ != nullptr
heap_clear(tb) == IF tb.null THEN 0 ELSE 0 - 1

heap_emplace(tb) == heap_try_grow(tb)

heap_erase_it(tb, it) == heap_try_shrink(erase_node(tb, it))

heap_erase(tb, key) ==
  IF find(tb, key) = End THEN 0 ELSE heap_erase_it(tb, find(tb, key))

heap_remove_if(tb, p, rnd) ==
  IF empty(tb) THEN 0 ELSE heap_try_shrink(remove_if_loops(tb, p, rnd).tb)

heap_assign(other) == IF size(other) = 0 THEN 0 ELSE heap_resize

heap_copy_assign(dst, other) == heap_clear(dst) + heap_assign(other)

\* this == &other: assign runs on the cleared table
heap_copy_assign_self(tb) == heap_clear(tb) + heap_assign(clear(tb))

heap_move_assign(dst) == heap_clear(dst)

heap_init_list(nodes) ==
  IF Len(nodes) = 0 THEN 0 ELSE heap_reserve(Null, Len(nodes))

\* ~FlatHashTable() = default: nothing is released
heap_destroy(tb) == 0

-----------------------------------------------------------------------------
(* Observations used by the properties.                                    *)

Buckets(tb) == 0..(bucket_count(tb) - 1)

Occupied(tb) == {b \in Buckets(tb) : ~node_empty(tb.nodes[b + 1])}

\* the live entries as (key, value) pairs
Entries(tb) == {<<tb.nodes[b + 1].first, tb.nodes[b + 1].second>> : b \in Occupied(tb)}

KeysOf(entries) == {e[1] : e \in entries}

\* buckets h, h + 1, ..., b - 1 taken cyclically
CyclicRange(h, b, n) == {(h + d) % n : d \in 0..((((b - h) + n) % n) - 1)}

-----------------------------------------------------------------------------
(* The state machine.  t is the table under test.  c is a second table     *)
(* object living in an inner scope: it is constructed, may be assigned     *)
(* from t, and is destroyed before t is used again.  last names the        *)
(* operation that produced the state; abs is the abstract key-value set    *)
(* driven by emplace and erase (re-read from t after any other             *)
(* operation); reserved is n while only emplace calls have followed        *)
(* reserve(n), else 0.  input, pos and out belong to the scripted and      *)
(* iterating specifications below.  heap is the number of live heap        *)
(* regions (obtained by std::malloc and not passed to std::free) in the    *)
(* specification that counts them, and NotCounted in the others.           *)

NotCounted == 0 - 1

\* the call changes the number of live regions by delta
Heap(delta) == heap' = IF heap = NotCounted THEN heap ELSE heap + delta

\* the operation op was called with arg and returned ret on a table that had
\* bc buckets when the call was made
Op(name, arg, ret) ==
  [op |-> name, arg |-> arg, ret |-> ret, bc |-> bucket_count(t)]

TempOps == {"construct", "copy_construct", "move_construct",
            "copy_assign", "move_assign", "swap"}

TempAlive == last.op \in TempOps

\* out while no iteration is in progress
NoIter == [active |-> FALSE, iter |-> Iterator(End), seen |-> <<>>]

\* the process is running, and neither a second table nor an iterator is
\* alive: t may be mutated
Idle == last.op # "abort" /\ ~TempAlive /\ ~out.active

\* the initializer lists offered to the constructor of c: empty, one node,
\* a repeated key, and as many distinct keys as the least table has buckets
InitLists ==
  { <<>>,
    <<KeyValue(1, 1)>>,
    <<KeyValue(1, 1), KeyValue(3, 0), KeyValue(1, 0)>>,
    [i \in 1..8 |-> KeyValue(i, i)] }

Init ==
  /\ t = Null
  /\ c = Null
  /\ last = Op("init", 0, 0)
  /\ abs = {}
  /\ reserved = 0
  /\ input = <<>>
  /\ pos = 0
  /\ out = NoIter
  /\ heap = NotCounted

AbsEmplace(key, value) ==
  IF key \in KeysOf(abs) THEN abs ELSE abs \cup {<<key, value>>}

AbsErase(key) == {e \in abs : e[1] # key}

\* a failed CHECK ends the process: no call is made after it
Emplace(key, value) ==
  /\ Idle
  /\ LET r == emplace(t, key, value)
     IN  /\ t' = r.tb
         /\ last' = IF r.fatal THEN Op("abort", 0, 0)
                    ELSE Op("emplace", 0, IF r.inserted THEN 1 ELSE 0)
         /\ abs' = IF r.fatal THEN abs ELSE AbsEmplace(key, value)
  /\ UNCHANGED <<c, reserved, input, pos, out>>
  /\ Heap(heap_emplace(t))

Index(key) ==
  /\ Idle
  /\ LET r == index(t, key)
     IN  /\ t' = r.tb
         /\ last' = IF r.fatal THEN Op("abort", 0, 0)
                    ELSE Op("index", 0, IF r.inserted THEN 1 ELSE 0)
         /\ abs' = IF r.fatal THEN abs ELSE AbsEmplace(key, DefaultVal)
  /\ UNCHANGED <<c, reserved, input, pos, out>>
  /\ Heap(heap_emplace(t))

EraseKey(key) ==
  /\ Idle
  /\ LET r == erase(t, key)
     IN  /\ t' = r.tb
         /\ last' = Op("erase", 0, r.ret)
  /\ abs' = AbsErase(key)
  /\ reserved' = 0
  /\ UNCHANGED <<c, input, pos, out>>
  /\ Heap(heap_erase(t, key))

EraseIt(it) ==
  /\ Idle
  /\ it \in Occupied(t)
  /\ t' = erase_it(t, it)
  /\ last' = Op("erase_it", 0, 0)
  /\ abs' = AbsErase(t.nodes[it + 1].first)
  /\ reserved' = 0
  /\ UNCHANGED <<c, input, pos, out>>
  /\ Heap(heap_erase_it(t, it))

\* what a call remove_if(f) on t leaves in last, r being its outcome
RemoveIfOp(p, r) ==
  [op |-> "remove_if", arg |-> p, ret |-> size(t) - size(r.tb),
   bc |-> bucket_count(t), calls |-> r.calls, at |-> r.at, mid |-> r.mid]

\* ret is the number of entries removed: size() before minus size() after;
\* calls and at list the keys f was evaluated on and the buckets they were
\* in, mid is bucket_count() between the loops and try_shrink
RemoveIf(p, rnd) ==
  /\ Idle
  /\ \E r \in {remove_if(t, Preds[p], rnd)} :
       /\ t' = r.tb
       /\ last' = RemoveIfOp(p, r)
  /\ abs' = Entries(t')
  /\ reserved' = 0
  /\ UNCHANGED <<c, input, pos, out>>
  /\ Heap(heap_remove_if(t, Preds[p], rnd))

Reserve(n) ==
  /\ Idle
  /\ t' = reserve(t, n)
  /\ last' = Op("reserve", 0, 0)
  /\ abs' = Entries(t')
  /\ reserved' = n
  /\ UNCHANGED <<c, input, pos, out>>
  /\ Heap(heap_reserve(t, n))

Clear ==
  /\ Idle
  /\ t' = clear(t)
  /\ last' = Op("clear", 0, 0)
  /\ abs' = Entries(t')
  /\ reserved' = 0
  /\ UNCHANGED <<c, input, pos, out>>
  /\ Heap(heap_clear(t))

\* t = t; assign returns before other.begin() draws a random number
SelfAssign ==
  /\ Idle
  /\ t' = copy_assign_self(t, 0)
  /\ last' = Op("self_assign", 0, 0)
  /\ abs' = Entries(t')
  /\ reserved' = 0
  /\ UNCHANGED <<c, input, pos, out>>
  /\ Heap(heap_copy_assign_self(t))

\* the nodes of the list args built by MapNode(key, value) in the build dcheck
list_nodes(args, dcheck) ==
  [i \in DOMAIN args |-> MapNode(args[i].first, args[i].second, dcheck)]

\* FlatHashTable c{args}: the list is built first, node by node, then the
\* constructor runs.  A failed DCHECK in MapNode ends the process before c is
\* allocated, a failed CHECK in the constructor while c is under construction.
Construct(args) ==
  /\ Idle
  /\ \E dcheck \in BOOLEAN :
       \E built \in {list_nodes(args, dcheck)} :
         IF \E i \in DOMAIN built : built[i].fatal
         THEN /\ c' = c
              /\ last' = Op("abort", 0, 0)
              /\ Heap(0)
         ELSE \E r \in {init_list([i \in DOMAIN built |-> built[i].node])} :
                /\ c' = r.tb
                /\ last' = IF r.fatal THEN Op("abort", 0, 0)
                           ELSE Op("construct", 0, 0)
                /\ Heap(heap_init_list(args))
  /\ reserved' = 0
  /\ UNCHANGED <<t, abs, input, pos, out>>

CopyConstruct(rnd) ==
  /\ Idle
  /\ c' = copy_construct(t, rnd)
  /\ last' = Op("copy_construct", 0, 0)
  /\ reserved' = 0
  /\ UNCHANGED <<t, abs, input, pos, out>>
  /\ Heap(heap_assign(t))

MoveConstruct ==
  /\ Idle
  /\ LET r == move_construct(t)
     IN  c' = r.dst /\ t' = r.src
  /\ last' = Op("move_construct", 0, 0)
  /\ abs' = Entries(t')
  /\ reserved' = 0
  /\ UNCHANGED <<input, pos, out>>
  /\ Heap(0)

CopyAssign(rnd) ==
  /\ TempAlive
  /\ c' = copy_assign(c, t, rnd)
  /\ last' = Op("copy_assign", 0, 0)
  /\ UNCHANGED <<t, abs, reserved, input, pos, out>>
  /\ Heap(heap_copy_assign(c, t))

MoveAssign ==
  /\ TempAlive
  /\ LET r == move_assign(c, t)
     IN  c' = r.dst /\ t' = r.src
  /\ last' = Op("move_assign", 0, 0)
  /\ abs' = Entries(t')
  /\ UNCHANGED <<reserved, input, pos, out>>
  /\ Heap(heap_move_assign(c))

\* t.swap(c)
Swap ==
  /\ TempAlive
  /\ LET r == swap(t, c)
     IN  t' = r.dst /\ c' = r.src
  /\ last' = Op("swap", 0, 0)
  /\ abs' = Entries(t')
  /\ UNCHANGED <<reserved, input, pos, out>>
  /\ Heap(0)

\* c leaves its scope
Destroy ==
  /\ TempAlive
  /\ c' = Null
  /\ last' = Op("destroy", 0, 0)
  /\ UNCHANGED <<t, abs, reserved, input, pos, out>>
  /\ Heap(heap_destroy(c))

\* the values Random::fast_uint32() & bucket_count_mask can take
Rnd(tb) == 0..tb.mask

\* the predicates that read the key only
KeyPreds == {p \in DOMAIN Preds : Preds[p].on = "key"}

\* Every operation of the table on keys 1..MaxKey, each key inserted with
\* the value equal to it.
Next ==
  \/ \E key \in Keys : Emplace(key, key)
  \/ \E key \in Keys : EraseKey(key)
  \/ \E it \in Buckets(t) : EraseIt(it)
  \/ \E p \in KeyPreds, rnd \in Rnd(t) : RemoveIf(p, rnd)
  \/ \E n \in 1..MaxReserve : Reserve(n)
  \/ Clear
  \/ SelfAssign
  \/ \E nodes \in InitLists : Construct(nodes)
  \/ \E rnd \in Rnd(t) : CopyConstruct(rnd)
  \/ MoveConstruct
  \/ \E rnd \in Rnd(t) : CopyAssign(rnd)
  \/ MoveAssign
  \/ Destroy

Spec == Init /\ [][Next]_vars

-----------------------------------------------------------------------------
(* Iterating t: it = begin(), then ++it until it == end().  No mutation    *)
(* happens while the iterator is alive (a mutation invalidates it).        *)

Begin(rnd) ==
  /\ Idle
  /\ out' = [active |-> TRUE, iter |-> begin(t, rnd), seen |-> <<>>]
  /\ last' = Op("begin", 0, 0)
  /\ reserved' = 0
  /\ UNCHANGED <<t, c, abs, input, pos>>
  /\ Heap(0)

\* the loop body reads *it, then ++it
Advance ==
  /\ out.active
  /\ out.iter.it # End
  /\ out' = [out EXCEPT !.iter = increment(t, out.iter),
                        !.seen = Append(@, out.iter.it)]
  /\ last' = Op("increment", 0, 0)
  /\ UNCHANGED <<t, c, abs, reserved, input, pos>>
  /\ Heap(0)

\* it == end(): the loop is left and the iterator dropped
Finish ==
  /\ out.active
  /\ out.iter.it = End
  /\ out' = NoIter
  /\ last' = Op("end", 0, 0)
  /\ UNCHANGED <<t, c, abs, reserved, input, pos>>
  /\ Heap(0)

NextIter ==
  \/ \E key \in Keys : Emplace(key, key)
  \/ \E key \in Keys : EraseKey(key)
  \/ \E n \in 1..MaxReserve : Reserve(n)
  \/ \E rnd \in Rnd(t) : Begin(rnd)
  \/ Advance
  \/ Finish

SpecIter == Init /\ [][NextIter]_vars

-----------------------------------------------------------------------------
(* Tables whose values vary: remove_if with predicates on keys and values, *)
(* and the copy and move operations, on the keys 1..MaxValKey.             *)

NextRemove ==
  \/ \E key \in ValKeys, value \in Vals : Emplace(key, value)
  \/ \E key \in ValKeys : Index(key)
  \/ \E key \in ValKeys : EraseKey(key)
  \/ \E n \in 1..MaxReserve : Reserve(n)
  \/ \E p \in DOMAIN Preds, rnd \in Rnd(t) : RemoveIf(p, rnd)

SpecRemove == Init /\ [][NextRemove]_vars

NextCopy ==
  \/ \E key \in ValKeys, value \in Vals : Emplace(key, value)
  \/ \E key \in ValKeys : EraseKey(key)
  \/ \E n \in 1..MaxReserve : Reserve(n)
  \/ SelfAssign
  \/ \E nodes \in InitLists : Construct(nodes)
  \/ \E rnd \in Rnd(t) : CopyConstruct(rnd)
  \/ MoveConstruct
  \/ \E rnd \in Rnd(t) : CopyAssign(rnd)
  \/ MoveAssign
  \/ Swap
  \/ Destroy

SpecCopy == Init /\ [][NextCopy]_vars

-----------------------------------------------------------------------------
(* Callers that break the precondition of emplace and of the               *)
(* initializer-list constructor: the keys offered include the sentinel     *)
(* KeyT() = 0.                                                             *)

AnyKeys == 0..MaxKey

\* initializer lists holding a node with the sentinel key: alone, first, in
\* the middle and last
SentinelLists ==
  { <<KeyValue(0, 0)>>,
    <<KeyValue(0, 1), KeyValue(1, 1)>>,
    <<KeyValue(1, 1), KeyValue(0, 1), KeyValue(2, 2)>>,
    <<KeyValue(1, 1), KeyValue(2, 0), KeyValue(0, 0)>> }

NextFatal ==
  \/ \E key \in AnyKeys : Emplace(key, key)
  \/ \E key \in 0..MaxSeqKey : Index(key)
  \/ \E key \in AnyKeys : EraseKey(key)
  \/ Clear
  \/ \E nodes \in SentinelLists : Construct(nodes)

SpecFatal == Init /\ [][NextFatal]_vars

-----------------------------------------------------------------------------
(* Counting the heap regions: the table t, a second table c, and every     *)
(* operation that allocates or releases, until MaxHeap regions are live.   *)

InitHeap ==
  /\ t = Null
  /\ c = Null
  /\ last = Op("init", 0, 0)
  /\ abs = {}
  /\ reserved = 0
  /\ input = <<>>
  /\ pos = 0
  /\ out = NoIter
  /\ heap = 0

Below == heap < MaxHeap

NextHeap ==
  \/ Below /\ \E key \in Keys : Emplace(key, key)
  \/ Below /\ \E key \in Keys : EraseKey(key)
  \/ Below /\ \E n \in 1..MaxReserve : Reserve(n)
  \/ Below /\ Clear
  \/ Below /\ \E nodes \in InitLists : Construct(nodes)
  \/ Below /\ \E rnd \in Rnd(t) : CopyAssign(rnd)
  \/ Below /\ MoveAssign
  \/ Below /\ Destroy

SpecHeap == InitHeap /\ [][NextHeap]_vars

-----------------------------------------------------------------------------
(* Fill and drain: an optional reserve(n) for 32, 64 or 128 buckets, then  *)
(* the keys 1, 2, ... emplaced in order, then erase calls, or one          *)
(* remove_if followed by erase calls.                                      *)

\* reserve(10), reserve(20), reserve(38) allocate 32, 64, 128 buckets
ShrinkReserves == {10, 20, 38}

Filling == last.op \in {"init", "reserve", "emplace"}

NextShrink ==
  \/ last.op = "init" /\ \E n \in ShrinkReserves : Reserve(n)
  \/ Filling /\ size(t) < MaxShrinkKey /\ Emplace(size(t) + 1, size(t) + 1)
  \/ \E key \in ShrinkKeys : EraseKey(key)
  \/ \E it \in Buckets(t) : EraseIt(it)
  \/ Filling /\ \E p \in KeyPreds, rnd \in Rnd(t) : RemoveIf(p, rnd)

SpecShrink == Init /\ [][NextShrink]_vars

-----------------------------------------------------------------------------
(* Scripted insertion: input is a sequence of (key, value) nodes, emplaced *)
(* one by one into an empty table; pos counts the emplace calls made.      *)

RECURSIVE SeqsUpTo(_, _)
\* the sequences over S of length at most n
SeqsUpTo(S, n) ==
  IF n = 0 THEN {<<>>}
  ELSE LET shorter == SeqsUpTo(S, n - 1)
       IN  shorter \cup {Append(q, x) : q \in shorter, x \in S}

\* the keys 1..6, each with the value equal to it
GrowthScript == [i \in 1..6 |-> KeyValue(i, i)]

Scripts ==
  SeqsUpTo({KeyValue(key, value) : key \in SeqKeys, value \in Vals}, MaxLen)
    \cup {GrowthScript}

InitSeq ==
  /\ t = Null
  /\ c = Null
  /\ last = Op("init", 0, 0)
  /\ abs = {}
  /\ reserved = 0
  /\ input \in Scripts
  /\ pos = 0
  /\ out = NoIter
  /\ heap = NotCounted

SeqEmplace ==
  /\ pos < Len(input)
  /\ LET r == emplace(t, input[pos + 1].first, input[pos + 1].second)
     IN  /\ t' = r.tb
         /\ last' = Op("emplace", 0, IF r.inserted THEN 1 ELSE 0)
  /\ pos' = pos + 1
  /\ UNCHANGED <<c, abs, reserved, input, out>>
  /\ Heap(heap_emplace(t))

NextSeq == SeqEmplace

SpecSeq == InitSeq /\ [][NextSeq]_vars

-----------------------------------------------------------------------------
(* normalize as a function: input is <<n>>, and the one step calls         *)
(* normalize(n).                                                           *)

NormalizeInputs ==
  (1..MaxNormalize)
    \cup {Pow2(k) + d : k \in 3..28, d \in {0 - 1, 0, 1}}
    \cup {Pow2(29) - 1, Pow2(29)}

InitNormalize ==
  /\ t = Null
  /\ c = Null
  /\ last = Op("init", 0, 0)
  /\ abs = {}
  /\ reserved = 0
  /\ input \in {<<n>> : n \in NormalizeInputs}
  /\ pos = 0
  /\ out = NoIter
  /\ heap = NotCounted

Normalize ==
  /\ pos = 0
  /\ last' = Op("normalize", input[1], normalize(input[1]))
  /\ pos' = 1
  /\ UNCHANGED <<t, c, abs, reserved, input, out, heap>>

NextNormalize == Normalize

SpecNormalize == InitNormalize /\ [][NextNormalize]_vars

-----------------------------------------------------------------------------
(* Collision chains: three keys that share their home bucket in a table of *)
(* 8 buckets are emplaced in order, then the first of them is erased.      *)

\* the scripts <<k1, k2, k3>> of distinct keys with one home bucket, each
\* key with the value equal to it
ChainScripts ==
  { <<KeyValue(k1, k1), KeyValue(k2, k2), KeyValue(k3, k3)>> :
      <<k1, k2, k3>> \in
        { ks \in ChainKeys \X ChainKeys \X ChainKeys :
            /\ ks[1] # ks[2] /\ ks[1] # ks[3] /\ ks[2] # ks[3]
            /\ calc_bucket(ks[1], 7) = calc_bucket(ks[2], 7)
            /\ calc_bucket(ks[1], 7) = calc_bucket(ks[3], 7) } }

InitChain ==
  /\ t = Null
  /\ c = Null
  /\ last = Op("init", 0, 0)
  /\ abs = {}
  /\ reserved = 0
  /\ input \in ChainScripts
  /\ pos = 0
  /\ out = NoIter
  /\ heap = NotCounted

\* erase(k1) once the script has been emplaced
SeqErase ==
  /\ pos = Len(input)
  /\ LET r == erase(t, input[1].first)
     IN  /\ t' = r.tb
         /\ last' = Op("erase", 0, r.ret)
  /\ pos' = pos + 1
  /\ UNCHANGED <<c, abs, reserved, input, out>>
  /\ Heap(heap_erase(t, input[1].first))

NextChain == SeqEmplace \/ SeqErase

SpecChain == InitChain /\ [][NextChain]_vars

-----------------------------------------------------------------------------
(* Properties.                                                             *)

\* C1: after every emplace and erase on non-sentinel keys, grows and
\* shrinks included, find(k) returns an entry for k exactly when k is in the
\* abstract set driven by the same calls, and count(k) is 1 exactly then.
MembershipRefinesSet ==
  \A k \in Keys :
    LET it == find(t, k)
    IN  /\ (it # End) <=> (k \in KeysOf(abs))
        /\ (count(t, k) = 1) <=> (k \in KeysOf(abs))
        /\ it # End => t.nodes[it + 1].first = k

\* an erase removed a key from a table that has grown to 16 buckets and
\* still holds six entries
ErasedAfterGrowth ==
  /\ last.op = "erase"
  /\ last.ret = 1
  /\ bucket_count(t) = 16
  /\ size(t) >= 6

Contiguous(tb) ==
  \A b \in Occupied(tb) :
    \A x \in CyclicRange(calc_bucket(tb.nodes[b + 1].first, tb.mask), b,
                         bucket_count(tb)) :
      ~node_empty(tb.nodes[x + 1])

\* C2: in every state, for every occupied bucket b whose key has home
\* bucket h, every bucket of the cyclic range [h, b) is occupied; this holds
\* for the table and for its copies.
ProbeContiguity == Contiguous(t) /\ Contiguous(c)

\* an entry sits before its home bucket, its probe chain having wrapped past
\* the last bucket
Wrapped(tb) ==
  \E b \in Occupied(tb) : calc_bucket(tb.nodes[b + 1].first, tb.mask) > b

\* an erase has shifted entries back in a table whose chain wraps
WrappedChainAfterErase ==
  /\ last.op = "erase"
  /\ last.ret = 1
  /\ size(t) >= 3
  /\ Wrapped(t)

LoadAtMost(tb, extra) ==
  tb.null \/ (tb.used - extra) * 5 <= tb.mask * 3

\* C3 as stated: after every completed mutation the table is null or
\* used_count * 5 <= bucket_mask * 3.
LoadBound == LoadAtMost(t, 0) /\ LoadAtMost(c, 0)

\* C3 as amended: after every completed mutation the table is null or
\* (used_count - 1) * 5 <= bucket_mask * 3; try_grow runs before the
\* insertion, so the table may hold one entry above the 0.6 bound.
LoadBoundAfterInsert == LoadAtMost(t, 1) /\ LoadAtMost(c, 1)

\* an emplace has completed and left the table above the 0.6 bound
OverBoundAfterEmplace ==
  /\ last.op = "emplace"
  /\ ~t.null
  /\ t.used * 5 > t.mask * 3

\* C9: after reserve(n), an emplace made while size() < n, only emplace
\* calls having followed the reserve, leaves bucket_count() unchanged.
NoGrowthWhileReserved ==
  [][(last'.op = "emplace" /\ reserved >= 1 /\ size(t) < reserved)
       => bucket_count(t') = bucket_count(t)]_vars

\* six entries were emplaced under reserve(6), which a table of 8 buckets
\* could not take without growing
FilledReservation ==
  /\ last.op = "emplace"
  /\ last.ret = 1
  /\ reserved = 6
  /\ size(t) = 6

\* the keys of the script, and the first and the last value it gives a key
ScriptKeys == {input[i].first : i \in 1..Len(input)}

Positions(k) == {i \in 1..Len(input) : input[i].first = k}

FirstVal(k) ==
  input[CHOOSE i \in Positions(k) : \A j \in Positions(k) : i <= j].second

LastVal(k) ==
  input[CHOOSE i \in Positions(k) : \A j \in Positions(k) : i >= j].second

\* it->second of the iterator find(key) returns
ValueAt(tb, key) == tb.nodes[find(tb, key) + 1].second

\* C4 as stated: once every (key, value) of the sequence has been emplaced,
\* find(k) returns the last-inserted value of each key k and size() is the
\* number of distinct keys.
RoundTripLast ==
  pos = Len(input) =>
    /\ \A k \in ScriptKeys : find(t, k) # End /\ ValueAt(t, k) = LastVal(k)
    /\ size(t) = Cardinality(ScriptKeys)

\* C4 as amended: once every (key, value) of the sequence has been emplaced,
\* find(k) returns the first-inserted value of each key k (emplace leaves
\* an existing entry as it is) and size() is the number of distinct keys.
RoundTripFirst ==
  pos = Len(input) =>
    /\ \A k \in ScriptKeys : find(t, k) # End /\ ValueAt(t, k) = FirstVal(k)
    /\ size(t) = Cardinality(ScriptKeys)

\* a script that repeats its first key with another value has run
RepeatedKeyEmplaced ==
  /\ Len(input) = 3
  /\ pos = 3
  /\ input[3].first = input[1].first
  /\ input[3].second # input[1].second
  /\ input[2].first # input[1].first

GrowthChecks(last8) ==
  input = GrowthScript =>
    /\ pos = 0 => bucket_count(t) = 0
    /\ (1 <= pos /\ pos <= last8) => bucket_count(t) = 8
    /\ pos > last8 => bucket_count(t) = 16
    /\ size(t) = pos
    /\ pos = 6 => \A k \in 1..6 : find(t, k) # End /\ ValueAt(t, k) = k

\* C10 as stated: inserting 1..6 into an empty map, the first insert
\* allocates 8 buckets, bucket_count() is 16 once the 5th insert has
\* completed, and after the 6th insert size() is 6 and every key is found.
GrowthAtFifthInsert == GrowthChecks(4)

\* C10 as amended: the first insert allocates 8 buckets, bucket_count() is
\* still 8 once the 5th insert has completed and is 16 once the 6th has
\* (the one growth, a doubling, happens in the 6th emplace, whose try_grow
\* sees 5 entries), and after the 6th insert size() is 6 and every key is
\* found with its value.
GrowthAtSixthInsert == GrowthChecks(5)

\* the six inserts of the growth scenario have been made
GrowthScriptDone == input = GrowthScript /\ pos = 6

\* the buckets the iteration has yielded so far
Seen == {out.seen[i] : i \in 1..Len(out.seen)}

\* C5: for every start bucket begin() may draw, begin() returns an occupied
\* bucket, and advancing until end() yields every live entry exactly once:
\* nothing is yielded twice, no empty bucket is yielded, the iterator stands
\* on an occupied bucket not yet yielded, and at end() nothing is left out
\* (so end() is reached after size() increments).
IterationExact ==
  out.active =>
    /\ Cardinality(Seen) = Len(out.seen)
    /\ Seen \subseteq Occupied(t)
    /\ out.iter.it # End => out.iter.it \in Occupied(t) \ Seen
    /\ out.iter.it = End => Seen = Occupied(t)

\* an iteration over at least four entries has reached end() after wrapping
\* from the last bucket to the first
IterationWrapped ==
  /\ out.active
  /\ out.iter.it = End
  /\ Len(out.seen) >= 4
  /\ out.seen[1] > out.seen[Len(out.seen)]

\* the entries f holds for
Matching(p, entries) == {e \in entries : F(Preds[p], KeyValue(e[1], e[2]))}

\* C6: after remove_if(f), whatever start bucket it drew, the live entries
\* are exactly the previously live entries for which f is false, with their
\* values, and size() is their number.
RemoveIfExact ==
  [][last'.op = "remove_if" =>
       /\ Entries(t') = Entries(t) \ Matching(last'.arg, Entries(t))
       /\ size(t') = Cardinality(Entries(t) \ Matching(last'.arg, Entries(t)))]_vars

\* a remove_if by value removed an entry and kept two, in a table whose
\* chain wraps
RemovedByValue ==
  /\ last.op = "remove_if"
  /\ Preds[last.arg].on = "val"
  /\ last.ret >= 1
  /\ size(t) >= 2
  /\ Wrapped(t)

\* C7: a copy c of t, made by copy construction or by copy assignment over
\* whatever c held, agrees with t on every key: found in both or in neither,
\* with equal values, and c.size() == t.size().
CopyAgrees ==
  last.op \in {"copy_construct", "copy_assign"} =>
    /\ \A k \in Keys :
         /\ (find(c, k) # End) <=> (find(t, k) # End)
         /\ find(t, k) # End => ValueAt(c, k) = ValueAt(t, k)
    /\ size(c) = size(t)

\* a copy assignment produced a table of at least three entries laid out
\* differently from its source
CopiedWithNewLayout ==
  /\ last.op = "copy_assign"
  /\ size(t) >= 3
  /\ c.nodes # t.nodes

\* C8: after move construction or move assignment from t, t.size() == 0 and
\* t.bucket_count() == 0, and the destination holds the entries and the
\* bucket count t had.
MoveEmptiesSource ==
  [][last'.op \in {"move_construct", "move_assign"} =>
       /\ size(t') = 0
       /\ bucket_count(t') = 0
       /\ Entries(c') = Entries(t)
       /\ bucket_count(c') = bucket_count(t)]_vars

\* a move assignment has handed over a table of at least two entries
MovedOut ==
  /\ last.op = "move_assign"
  /\ t.null
  /\ size(c) >= 2

\* C11: after an erase(key) or erase(iterator) that removed an entry, if
\* bucket_count() did not decrease then used_count * 10 >= bucket_mask or
\* bucket_mask <= 7; and if bucket_count() changed, the table had
\* used_count * 10 < bucket_mask and bucket_mask > 7 once the entry was
\* removed, and bucket_count() strictly decreased.
ShrinkOnlyWhenSparse ==
  [][(last'.op \in {"erase", "erase_it"} /\ size(t') < size(t)) =>
       /\ bucket_count(t') >= bucket_count(t)
            => (t'.used * 10 >= t'.mask \/ t'.mask <= 7)
       /\ bucket_count(t') # bucket_count(t)
            => /\ (t.used - 1) * 10 < t.mask
               /\ t.mask > 7
               /\ bucket_count(t') < bucket_count(t)]_vars

\* an erase has shrunk a table of 64 buckets to 16
ErasedAndShrunk ==
  /\ last.op = "erase"
  /\ last.ret = 1
  /\ last.bc = 64
  /\ bucket_count(t) = 16

\* the node in bucket (h + d) mod 8
ChainNode(d) ==
  t.nodes[((calc_bucket(input[1].first, 7) + d) % 8) + 1]

\* C12: in a table of 8 buckets, keys k1, k2, k3 sharing the home bucket h
\* and emplaced in this order occupy h, h + 1, h + 2 modulo 8; after
\* erase(k1), k2 is in bucket h, k3 in bucket h + 1, bucket h + 2 is empty,
\* and find reaches k2 and k3 there; for every h, h = 6 and h = 7 where the
\* chain wraps included.
ChainShiftsBack ==
  LET h == calc_bucket(input[1].first, 7)
  IN  /\ pos = 3 =>
            /\ bucket_count(t) = 8
            /\ \A d \in 0..2 : ChainNode(d) = input[d + 1]
      /\ pos = 4 =>
            /\ bucket_count(t) = 8
            /\ size(t) = 2
            /\ ChainNode(0) = input[2]
            /\ ChainNode(1) = input[3]
            /\ node_empty(ChainNode(2))
            /\ find(t, input[1].first) = End
            /\ find(t, input[2].first) = h
            /\ find(t, input[3].first) = (h + 1) % 8

\* the first key of a chain with home bucket 7 has been erased: the entries
\* of buckets 0 and 1 were moved across the end of the array
WrappedChainErased ==
  /\ pos = 4
  /\ last.op = "erase"
  /\ last.ret = 1
  /\ calc_bucket(input[1].first, 7) = 7

\* C13: from every table state, null or allocated, emplace and operator[]
\* called with the sentinel key fail the CHECK, as does the constructor given
\* a list that holds the sentinel key (or, in a build with DCHECK, the making
\* of such a list); the failed call ends the process, so
\* no step follows it; and in every state reached, the aborted one included,
\* the sentinel is not a member and used_count counts the buckets whose key
\* is not the sentinel.
SentinelIsFatal ==
  [][/\ last.op # "abort"
     /\ \A value \in Vals : emplace(t, 0, value).fatal
     /\ index(t, 0).fatal
     /\ \A nodes \in SentinelLists : init_list(nodes).fatal
     /\ \A value \in Vals : MapNode(0, value, TRUE).fatal
     /\ size(c') <= Cardinality({i \in DOMAIN c'.nodes : c'.nodes[i].first # 0})
     /\ find(t', 0) = End
     /\ size(t') = Cardinality({i \in DOMAIN t'.nodes : t'.nodes[i].first # 0})
     /\ last'.op = "abort" => Entries(t') = Entries(t)]_vars

\* the process was aborted by a call made on a table holding entries, after
\* the try_grow of that call had doubled the table
AbortedAfterGrowth ==
  /\ last.op = "abort"
  /\ last.bc = 8
  /\ bucket_count(t) = 16
  /\ size(t) = 5

\* the heap regions a table object holds: the one nodes_ points into
Held(tb) == IF tb.null THEN 0 ELSE 1

\* C14: every heap region the table allocates is released, by resize when
\* it replaces the region, by clear() and by the destructor: in every state
\* the live regions are those held by the live tables, one for a table that
\* is not null, none for a table that is null, cleared or destroyed.
HeapIsOwned == heap # NotCounted => heap = Held(t) + Held(c)

\* a probe that starts at any bucket of tb meets an empty bucket within
\* bucket_count() steps
ProbesEnd(tb) ==
  \A b \in Buckets(tb) :
    \E d \in 0..tb.mask : node_empty(tb.nodes[((b + d) % (tb.mask + 1)) + 1])

\* C15: in every state a table that is not null has used_count <
\* bucket_count and an empty bucket, so that the probe loops of find,
\* emplace, begin, resize, erase_node and remove_if, which stop at an
\* empty bucket, end within bucket_count steps from any bucket; this holds
\* for the table and for the tables constructed, copied and moved from it.
AlwaysAnEmptyBucket ==
  \A tb \in {t, c} :
    ~tb.null =>
      /\ tb.used < bucket_count(tb)
      /\ Occupied(tb) # Buckets(tb)
      /\ ProbesEnd(tb)
      /\ \A rnd \in Rnd(tb) : iterate(tb, rnd).finished

\* the fullest tables: t holds five entries in 8 buckets after an emplace,
\* one more than the growth threshold admits before an insertion
FullestTable ==
  /\ last.op = "emplace"
  /\ last.ret = 1
  /\ bucket_count(t) = 8
  /\ size(t) = 5

IsPow2(x) == \E k \in 0..30 : x = Pow2(k)

\* C16 as stated: for 1 <= n <= 2^29, normalize(n) is the smallest power of
\* two >= n, or 8 if that power is below 8; normalize(n) = n when n is a
\* power of two >= 8.
NormalizeRoundsUp ==
  last.op = "normalize" =>
    LET n == last.arg
        r == last.ret
    IN  /\ IsPow2(r)
        /\ r >= 8
        /\ r >= n
        /\ r = 8 \/ r \div 2 < n
        /\ (IsPow2(n) /\ n >= 8) => r = n

\* C16 as amended: for 1 <= n <= 2^29, normalize(n) is the smallest power
\* of two strictly greater than n, or 8 if that power is below 8;
\* normalize(n) = 2 * n when n is a power of two >= 8, and 8 for n < 8.
NormalizeRoundsAbove ==
  last.op = "normalize" =>
    LET n == last.arg
        r == last.ret
    IN  /\ IsPow2(r)
        /\ r >= 8
        /\ r > n
        /\ r = 8 \/ r \div 2 <= n
        /\ (IsPow2(n) /\ n >= 8) => r = 2 * n
        /\ n < 8 => r = 8

\* normalize was called with a power of two >= 8
NormalizedPowerOfTwo ==
  /\ last.op = "normalize"
  /\ last.arg >= 8
  /\ IsPow2(last.arg)

\* the argument try_shrink passes to normalize when used entries are live
ShrinkTarget(used) == ((used + 1) * 5) \div 3 + 1

\* the smallest power of two >= x, and the smallest one > x
LeastPow2AtLeast(x) == CHOOSE p \in {Pow2(k) : k \in 0..30} : p >= x /\ p < 2 * x

LeastPow2Above(x) == CHOOSE p \in {Pow2(k) : k \in 0..30} : p > x /\ p <= 2 * x

\* an erase or a remove_if has shrunk the table in this step
Shrinks ==
  /\ last'.op \in {"erase", "erase_it", "remove_if"}
  /\ bucket_count(t') < bucket_count(t)

\* C17 as stated: when an erase or the end of remove_if shrinks a table
\* that holds used live entries, the new bucket count is the smallest
\* power of two >= (used + 1) * 5 / 3 + 1, and never below 8.
ShrinkToLeastPow2 ==
  [][Shrinks =>
       bucket_count(t') = Max(LeastPow2AtLeast(ShrinkTarget(size(t'))), 8)]_vars

\* C17 as amended: when an erase or the end of remove_if shrinks a table
\* that holds used live entries, the new bucket count is the smallest
\* power of two strictly greater than (used + 1) * 5 / 3 + 1, and never
\* below 8; with 8 live entries in 128 buckets that is 32, not 16.
ShrinkToPow2Above ==
  [][Shrinks =>
       bucket_count(t') = Max(LeastPow2Above(ShrinkTarget(size(t'))), 8)]_vars

\* an erase has left 8 entries in a table reserved with 128 buckets, and the
\* table has shrunk: (8 + 1) * 5 / 3 + 1 is 16, a power of two
ShrunkAtPowerOfTwo ==
  /\ last.op \in {"erase", "erase_it"}
  /\ last.bc = 128
  /\ size(t) = 8
  /\ bucket_count(t) < 128

\* used_count is the number of occupied buckets, and the occupied buckets
\* hold distinct keys
CountsOccupied(tb) ==
  ~tb.null =>
    /\ tb.used = Cardinality(Occupied(tb))
    /\ \A a, b \in Occupied(tb) :
         a # b => tb.nodes[a + 1].first # tb.nodes[b + 1].first

\* C18: in every state, a table that is not null has used_count equal to
\* the number of buckets whose key is not the sentinel, and no two of them
\* hold equal keys; this holds after emplace, erase, remove_if, resize, copy
\* and move (table t and its copies c) and the initializer-list constructor.
UsedCountExact == CountsOccupied(t) /\ CountsOccupied(c)

\* a table was constructed from an initializer list that repeats a key:
\* three nodes given, two entries held
ConstructedWithRepeatedKey ==
  /\ last.op = "construct"
  /\ size(c) = 2

\* C19: in remove_if(f), whatever the start bucket and the layout, wrapping
\* chains included, f is evaluated exactly once on each entry that was live
\* when remove_if began: the keys f saw are the keys of the table, none
\* twice; and bucket_count() is unchanged when the two loops are done, the
\* try_shrink that follows them being the only resize (mid is read between
\* the loops and try_shrink).
PredicateOncePerEntry ==
  [][last'.op = "remove_if" =>
       /\ Len(last'.calls) = size(t)
       /\ {last'.calls[i] : i \in 1..Len(last'.calls)} = KeysOf(Entries(t))
       /\ last'.mid = bucket_count(t)]_vars

\* f was evaluated twice at the last bucket: on the entry erased there and on
\* the entry of bucket 0 that the backward shift moved across the end of the
\* array, which f would otherwise have met in the second loop
PulledAcrossTheEnd ==
  /\ last.op = "remove_if"
  /\ last.ret = 1
  /\ \E i \in 1..(Len(last.at) - 1) :
       /\ last.at[i] = last.bc - 1
       /\ last.at[i + 1] = last.bc - 1

\* C20: copy assignment leaves its source unchanged: after dst = src, with
\* dst another object (copy_assign into c) or the same object (self_assign),
\* the source t holds the same set of (key, value) entries and the same
\* size() as before.
CopyAssignKeepsSource ==
  [][last'.op \in {"copy_assign", "self_assign"} =>
       /\ Entries(t') = Entries(t)
       /\ size(t') = size(t)]_vars

=============================================================================
